---- MODULE Spec2Model ----
(***************************************************************************)
(* A model of axelrod/result_set.py: the ResultSet class.                  *)
(*                                                                         *)
(* Python lists are TLA+ sequences, so the Python index k is the TLA+      *)
(* index k + 1.  The lists that _null_results_matrix allocates live in a   *)
(* heap (a sequence of lists, a list's address being its position), so     *)
(* that sharing between rows or between channels is observable.  Floats    *)
(* are modelled by exact rationals <<numerator, denominator>> in lowest    *)
(* terms with a positive denominator; rounding is not modelled.  Strings   *)
(* are sequences of one-character strings.  None is the empty tuple and a  *)
(* computed attribute value v is the one-element tuple <<v>>.              *)
(***************************************************************************)
EXTENDS Integers, Sequences, FiniteSets, TLC

VARIABLES
    players,        \* self.players: the list of player names
    turns,          \* self.turns
    repetitions,    \* self.repetitions
    outcome,        \* self.outcome: channel name -> list of matrices
    with_morality,  \* the constructor's flag
    phase,          \* "new" (before __init__), "built", "failed"
    heap,           \* the lists allocated for the results tensors
    attrs,          \* the instance attributes assigned by __init__
    calls,          \* the reducer routines invoked by __init__, in order
    first_csv,      \* what the first call of csv() returned or raised
    ret             \* what the last operation returned or raised

vars == <<players, turns, repetitions, outcome, with_morality,
          phase, heap, attrs, calls, first_csv, ret>>

\* ---------------------------------------------------------------- bounds
MaxPlayers == 2
MaxReps == 2
MaxTurns == 2
MaxVal == 2
FracDigits == 3

\* ------------------------------------------------------- Python helpers
None == <<>>
Some(v) == <<v>>
Get(list, k) == list[k + 1]

RECURSIVE SumSeq(_)
SumSeq(s) == IF s = <<>> THEN 0 ELSE Head(s) + SumSeq(Tail(s))

RECURSIVE Gcd(_, _)
Gcd(a, b) == IF b = 0 THEN a ELSE Gcd(b, a % b)

Abs(x) == IF x < 0 THEN -x ELSE x

\* n / d as a float, d # 0
Rat(n, d) ==
    LET g == Gcd(Abs(n), Abs(d))
        s == IF d < 0 THEN -1 ELSE 1
    IN  <<(s * n) \div g, (s * d) \div g>>

RatNeg(q) == <<-q[1], q[2]>>
RatAdd(p, q) == Rat(p[1] * q[2] + q[1] * p[2], p[2] * q[2])

\* ----------------------------------------------------- results tensors
\* The failure of a list index out of range.
IndexError == [raised |-> "IndexError"]

\* A variant of _null_results_matrix built by list repetition,
\* [[[0] * reps] * nplayers] * nplayers: one row of cells used nplayers times.
_null_results_matrix_repeated(h, nplayers, reps) ==
    LET base == Len(h)
        cell == [r \in 1..reps |-> 0]
        row == [j \in 1..nplayers |-> base + 1]
        top == [i \in 1..nplayers |-> base + 2]
    IN  [heap |-> h \o <<cell, row, top>>, matrix |-> base + 3]

\* @property _null_results_matrix, allocating in heap h: nplayers lists of
\* nplayers lists of `repetitions` zeros, every list a new one.
\* Returns the new heap and the address of the outer list.
_null_results_matrix(h, nplayers, reps) ==
    LET base == Len(h)
        cell(i, j) == base + (i - 1) * nplayers + j
        row(i) == base + nplayers * nplayers + i
        cells == [k \in 1..(nplayers * nplayers) |-> [r \in 1..reps |-> 0]]
        rows == [i \in 1..nplayers |-> [j \in 1..nplayers |-> cell(i, j)]]
        top == [i \in 1..nplayers |-> row(i)]
    IN  [heap |-> h \o cells \o rows \o <<top>>,
         matrix |-> base + nplayers * nplayers + nplayers + 1]

\* @property _null_matrix: an n by n matrix of zeros.
_null_matrix(nplayers) ==
    [i \in 1..nplayers |-> [j \in 1..nplayers |-> 0]]

\* The nested-list value of the tensor at address `matrix` of heap h.
Tensor(h, matrix) ==
    [i \in 1..Len(h[matrix]) |->
        [j \in 1..Len(h[h[matrix][i]]) |-> h[h[h[matrix][i]][j]]]]

\* A variant of line 140 that writes matrix[j][i][index].
CopyCell_transposed(h, matrix, result_matrix, index, i, j) ==
    IF i + 1 > Len(result_matrix) THEN IndexError
    ELSE IF j + 1 > Len(Get(result_matrix, i)) THEN IndexError
    ELSE LET target == Get(h[Get(h[matrix], j)], i)
         IN  IF index + 1 > Len(h[target]) THEN IndexError
             ELSE [h EXCEPT ![target][index + 1] = Get(Get(result_matrix, i), j)]

\* Line 140, matrix[i][j][index] = result_matrix[i][j], on heap h:
\* the new heap, or IndexError.
CopyCell(h, matrix, result_matrix, index, i, j) ==
    IF i + 1 > Len(result_matrix) THEN IndexError
    ELSE IF j + 1 > Len(Get(result_matrix, i)) THEN IndexError
    ELSE LET target == Get(h[Get(h[matrix], i)], j)
         IN  IF index + 1 > Len(h[target]) THEN IndexError
             ELSE [h EXCEPT ![target][index + 1] = Get(Get(result_matrix, i), j)]

\* Lines 137-140 for one channel: the loops over index, i and j, from step
\* t on (t counts the cells in loop order).
RECURSIVE CopyFrom(_, _, _, _, _)
CopyFrom(h, matrix, result_list, nplayers, t) ==
    IF t >= Len(result_list) * nplayers * nplayers THEN h
    ELSE LET index == t \div (nplayers * nplayers)
             i == (t % (nplayers * nplayers)) \div nplayers
             j == t % nplayers
             h2 == CopyCell(h, matrix, Get(result_list, index), index, i, j)
         IN  IF h2 = IndexError THEN IndexError
             ELSE CopyFrom(h2, matrix, result_list, nplayers, t + 1)

\* _results(outcome), visiting the channels in the order `order`:
\* [heap, results] with results: channel -> address, or IndexError.
\* Line 141 sits inside the loop over result_list, so a channel with an
\* empty list gets no entry.
RECURSIVE _results(_, _, _, _, _, _)
_results(h, res, out, order, nplayers, reps) ==
    IF order = <<>> THEN [heap |-> h, results |-> res]
    ELSE LET result_type == Head(order)
             result_list == out[result_type]
             null == _null_results_matrix(h, nplayers, reps)
             h2 == CopyFrom(null.heap, null.matrix, result_list, nplayers, 0)
         IN  IF h2 = IndexError THEN IndexError
             ELSE _results(h2,
                           IF result_list = <<>> THEN res
                           ELSE (result_type :> null.matrix) @@ res,
                           out, Tail(order), nplayers, reps)

\* ------------------------------------------------ the payoff reducers
\* axelrod.payoff (ap): scores[i][r], the sum over every opponent index j
\* of payoff[i][j][r].
ap_scores(payoff, nplayers, reps) ==
    [i \in 1..nplayers |-> [r \in 1..reps |->
        SumSeq([j \in 1..nplayers |-> payoff[i][j][r]])]]

\* ap.normalised_scores: every score divided by (nplayers - 1) * turns.
ap_normalised_scores(scores, nplayers, t) ==
    [i \in 1..nplayers |-> [r \in 1..Len(scores[i]) |->
        Rat(scores[i][r], (nplayers - 1) * t)]]

\* ap.ranking: the player indices in a stable sort by descending mean score.
ap_ranking(scores, nplayers) ==
    LET key(i) == SumSeq(scores[i])
        before(k, i) == key(k) > key(i) \/ (key(k) = key(i) /\ k < i)
        pos(i) == Cardinality({k \in 1..nplayers : before(k, i)}) + 1
    IN  [p \in 1..nplayers |-> (CHOOSE i \in 1..nplayers : pos(i) = p) - 1]

\* ap.ranked_names: the players' names in ranking order.
ap_ranked_names(names, ranking) ==
    [k \in 1..Len(ranking) |-> Get(names, ranking[k])]

\* ap.normalised_payoff: per ordered pair, the mean over the repetitions of
\* payoff[i][j][r] / turns, and its population standard deviation (kept as
\* the variance under a square root).
ap_normalised_payoff(payoff, t, reps) ==
    LET n == Len(payoff)
        sum(i, j) == SumSeq(payoff[i][j])
        sumsq(i, j) == SumSeq([r \in 1..reps |-> payoff[i][j][r] * payoff[i][j][r]])
    IN  [matrix |-> [i \in 1..n |-> [j \in 1..n |-> Rat(sum(i, j), t * reps)]],
         stddevs |-> [i \in 1..n |-> [j \in 1..n |->
             [sqrt |-> Rat(reps * sumsq(i, j) - sum(i, j) * sum(i, j),
                           reps * reps * t * t)]]]]

\* ap.wins: wins[i][r], the number of opponents j with
\* payoff[i][j][r] > payoff[j][i][r].
ap_wins(payoff, nplayers, reps) ==
    [i \in 1..nplayers |-> [r \in 1..reps |->
        Cardinality({j \in 1..nplayers : payoff[i][j][r] > payoff[j][i][r]})]]

\* Line 175 (and 203): the per-turn difference of one pairing.
Diff(payoff, player, opponent, repetition, t) ==
    Rat(Get(Get(Get(payoff, player), opponent), repetition)
          - Get(Get(Get(payoff, opponent), player), repetition), t)

\* Lines 174-176 (and 202-204): the loop over the repetitions from
\* `repetition` on, appending each difference to the list diffs.
RECURSIVE RepetitionLoop(_, _, _, _, _, _, _)
RepetitionLoop(diffs, payoff, player, opponent, repetition, reps, t) ==
    IF repetition >= reps THEN diffs
    ELSE RepetitionLoop(Append(diffs, Diff(payoff, player, opponent, repetition, t)),
                        payoff, player, opponent, repetition + 1, reps, t)

\* Lines 173-176: the loop over the opponents from `opponent` on, every
\* difference appended to the one list diffs[player].
RECURSIVE OpponentLoop(_, _, _, _, _, _, _)
OpponentLoop(diffs, payoff, player, opponent, nplayers, reps, t) ==
    IF opponent >= nplayers THEN diffs
    ELSE OpponentLoop(RepetitionLoop(diffs, payoff, player, opponent, 0, reps, t),
                      payoff, player, opponent + 1, nplayers, reps, t)

\* A variant of _score_diffs with the loops exchanged, repetitions outside
\* and opponents inside.
_score_diffs_by_repetition(payoff, nplayers, reps, t) ==
    [p \in 1..nplayers |-> [k \in 1..(nplayers * reps) |->
        Diff(payoff, p - 1, (k - 1) % nplayers, (k - 1) \div nplayers, t)]]

\* _score_diffs: one list per player.
_score_diffs(payoff, nplayers, reps, t) ==
    [p \in 1..nplayers |-> OpponentLoop(<<>>, payoff, p - 1, 0, nplayers, reps, t)]

\* numpy.mean of a non-empty list of floats.
RECURSIVE RatSum(_)
RatSum(qs) == IF qs = <<>> THEN <<0, 1>> ELSE RatAdd(Head(qs), RatSum(Tail(qs)))
mean(qs) == Rat(RatSum(qs)[1], RatSum(qs)[2] * Len(qs))

\* A variant of _payoff_diffs_matrix that stores the sum of the differences
\* instead of their mean.
_payoff_diffs_matrix_summed(payoff, nplayers, reps, t) ==
    [p \in 1..nplayers |-> [o \in 1..nplayers |->
        RatSum(RepetitionLoop(<<>>, payoff, p - 1, o - 1, 0, reps, t))]]

\* _payoff_diffs_matrix: per ordered pair, the mean of the list of the
\* differences over the repetitions.
_payoff_diffs_matrix(payoff, nplayers, reps, t) ==
    [p \in 1..nplayers |-> [o \in 1..nplayers |->
        mean(RepetitionLoop(<<>>, payoff, p - 1, o - 1, 0, reps, t))]]

\* ------------------------------------------- the cooperation reducers
\* axelrod.cooperation (ac): the count per ordered pair, summed over the
\* repetitions.
ac_cooperation_matrix(coop) ==
    [i \in 1..Len(coop) |-> [j \in 1..Len(coop) |-> SumSeq(coop[i][j])]]

\* ac.normalised_cooperation: every entry divided by turns * repetitions.
ac_normalised_cooperation(cooperation, t, reps) ==
    [i \in 1..Len(cooperation) |-> [j \in 1..Len(cooperation) |->
        Rat(cooperation[i][j], t * reps)]]

\* ac.vengeful_cooperation: 2 * c - 1 for every entry.
ac_vengeful_cooperation(normalised) ==
    [i \in 1..Len(normalised) |-> [j \in 1..Len(normalised) |->
        Rat(2 * normalised[i][j][1] - normalised[i][j][2], normalised[i][j][2])]]

\* ac.cooperating_rating: the row sum over (nplayers - 1) * turns * reps.
ac_cooperating_rating(cooperation, nplayers, t, reps) ==
    [i \in 1..nplayers |-> Rat(SumSeq(cooperation[i]), (nplayers - 1) * t * reps)]

\* ac.good_partner_matrix: the number of repetitions in which i cooperated
\* at least as often as j.
ac_good_partner_matrix(coop, nplayers, reps) ==
    [i \in 1..nplayers |-> [j \in 1..nplayers |->
        Cardinality({r \in 1..reps : coop[i][j][r] >= coop[j][i][r]})]]

\* ac.good_partner_rating: the row sum over (nplayers - 1) * reps.
ac_good_partner_rating(matrix, nplayers, reps) ==
    [i \in 1..nplayers |-> Rat(SumSeq(matrix[i]), (nplayers - 1) * reps)]

\* ac.eigenvector: the external eigenvector routine, left uninterpreted.
ac_eigenvector(matrix) == [eigenvector |-> matrix]

\* ------------------------------------------------------------ __init__
EmptyDict == [k \in {} |-> 0]

PayoffFields ==
    {"scores", "normalised_scores", "ranking", "ranked_names", "payoff_matrix",
     "payoff_stddevs", "wins", "payoff_diffs_matrix", "score_diffs"}

CoopFields ==
    {"cooperation", "normalised_cooperation", "vengeful_cooperation",
     "cooperating_rating", "good_partner_matrix", "good_partner_rating",
     "eigenjesus_rating", "eigenmoses_rating"}

\* Lines 32-51: the attributes __init__ assigns before the reducers run.
\* payoff_stddevs, payoff_diffs_matrix and score_diffs are not among them.
InitialAttrs(names, t, reps, out, res) ==
    [players |-> names, nplayers |-> Len(names), turns |-> t,
     repetitions |-> reps, outcome |-> out, results |-> res,
     scores |-> None, normalised_scores |-> None, ranking |-> None,
     ranked_names |-> None, payoff_matrix |-> None, wins |-> None,
     cooperation |-> None, normalised_cooperation |-> None,
     vengeful_cooperation |-> None, cooperating_rating |-> None,
     good_partner_matrix |-> None, good_partner_rating |-> None,
     eigenjesus_rating |-> None, eigenmoses_rating |-> None]

\* Line 53: the condition under which the payoff reducers run.
PayoffWanted(res) == "payoff" \in DOMAIN res

\* A variant of line 68 that does not look at the flag.
MoralityWanted_whatever_flag(res, flag) == "cooperation" \in DOMAIN res

\* Line 68: the condition under which the cooperation reducers run.
MoralityWanted(res, flag) == "cooperation" \in DOMAIN res /\ flag

\* Lines 54-66: the attributes set from the payoff tensor.
PayoffAttrs(payoff, names, t, reps) ==
    LET n == Len(names)
        scores == ap_scores(payoff, n, reps)
        ranking == ap_ranking(scores, n)
        np == ap_normalised_payoff(payoff, t, reps)
    IN  [scores |-> Some(scores),
         normalised_scores |-> Some(ap_normalised_scores(scores, n, t)),
         ranking |-> Some(ranking),
         ranked_names |-> Some(ap_ranked_names(names, ranking)),
         payoff_matrix |-> Some(np.matrix),
         payoff_stddevs |-> Some(np.stddevs),
         wins |-> Some(ap_wins(payoff, n, reps)),
         payoff_diffs_matrix |-> Some(_payoff_diffs_matrix(payoff, n, reps, t)),
         score_diffs |-> Some(_score_diffs(payoff, n, reps, t))]

PayoffCalls ==
    <<"ap.scores", "ap.normalised_scores", "ap.ranking", "ap.ranked_names",
      "ap.normalised_payoff", "ap.wins", "_payoff_diffs_matrix", "_score_diffs">>

\* Lines 69-82: the attributes set from the cooperation tensor.
CoopAttrs(coop, names, t, reps) ==
    LET n == Len(names)
        cooperation == ac_cooperation_matrix(coop)
        normalised == ac_normalised_cooperation(cooperation, t, reps)
        vengeful == ac_vengeful_cooperation(normalised)
        partner == ac_good_partner_matrix(coop, n, reps)
    IN  [cooperation |-> Some(cooperation),
         normalised_cooperation |-> Some(normalised),
         vengeful_cooperation |-> Some(vengeful),
         cooperating_rating |-> Some(ac_cooperating_rating(cooperation, n, t, reps)),
         good_partner_matrix |-> Some(partner),
         good_partner_rating |-> Some(ac_good_partner_rating(partner, n, reps)),
         eigenjesus_rating |-> Some(ac_eigenvector(normalised)),
         eigenmoses_rating |-> Some(ac_eigenvector(vengeful))]

CoopCalls ==
    <<"ac.cooperation_matrix", "ac.normalised_cooperation", "ac.vengeful_cooperation",
      "ac.cooperating_rating", "ac.good_partner_matrix", "ac.good_partner_rating",
      "ac.eigenvector", "ac.eigenvector">>

\* ResultSet(players, turns, repetitions, outcome, with_morality), the
\* dictionary `outcome` iterated in the order `order`: the exception raised
\* ("" when none), the heap, the instance attributes and the reducers called.
ResultSet(names, t, reps, out, flag, order) ==
    LET rs == _results(<<>>, EmptyDict, out, order, Len(names), reps)
    IN  IF rs = IndexError
        THEN [raised |-> "IndexError", heap |-> <<>>, attrs |-> EmptyDict, calls |-> <<>>]
        ELSE LET res == rs.results
                 a0 == InitialAttrs(names, t, reps, out, res)
                 a1 == IF PayoffWanted(res)
                       THEN PayoffAttrs(Tensor(rs.heap, res["payoff"]), names, t, reps) @@ a0
                       ELSE a0
                 a2 == IF MoralityWanted(res, flag)
                       THEN CoopAttrs(Tensor(rs.heap, res["cooperation"]), names, t, reps) @@ a1
                       ELSE a1
             IN  [raised |-> "", heap |-> rs.heap, attrs |-> a2,
                  calls |-> (IF PayoffWanted(res) THEN PayoffCalls ELSE <<>>)
                            \o (IF MoralityWanted(res, flag) THEN CoopCalls ELSE <<>>)]

\* ----------------------------------------------------------------- csv
NL == "\n"
Comma == ","
Quote == "\""

Digit(d) == <<"0", "1", "2", "3", "4", "5", "6", "7", "8", "9">>[d + 1]

RECURSIVE IntStr(_)
IntStr(n) == IF n < 10 THEN <<Digit(n)>> ELSE Append(IntStr(n \div 10), Digit(n % 10))

\* The digits after the point of rem / den, at most k of them.
RECURSIVE FracStr(_, _, _)
FracStr(rem, den, k) ==
    LET d == (rem * 10) \div den
        rest == (rem * 10) % den
    IN  IF rest = 0 \/ k <= 1 THEN <<Digit(d)>>
        ELSE <<Digit(d)>> \o FracStr(rest, den, k - 1)

\* str(x) of a float x: sign, integer part, point, fraction digits.
Str(q) ==
    (IF q[1] < 0 THEN <<"-">> ELSE <<>>)
      \o IntStr(Abs(q[1]) \div q[2]) \o <<".">>
      \o FracStr(Abs(q[1]) % q[2], q[2], FracDigits)

\* sep.join(strings)
RECURSIVE Join(_, _)
Join(strings, sep) ==
    IF strings = <<>> THEN <<>>
    ELSE IF Len(strings) = 1 THEN Head(strings)
    ELSE Head(strings) \o <<sep>> \o Join(Tail(strings), sep)

\* csv.writer's default quoting of one field: quoted, with the quotes
\* doubled, when it holds the delimiter, a quote or a line break.
RECURSIVE DoubleQuotes(_)
DoubleQuotes(f) ==
    IF f = <<>> THEN <<>>
    ELSE (IF Head(f) = Quote THEN <<Quote, Quote>> ELSE <<Head(f)>>)
           \o DoubleQuotes(Tail(f))

QuoteField(f) ==
    IF \E k \in 1..Len(f) : f[k] \in {Comma, Quote, NL, "\r"}
    THEN <<Quote>> \o DoubleQuotes(f) \o <<Quote>>
    ELSE f

\* writer.writerow(fields) with lineterminator "\n"
WriteRow(fields) ==
    Join([k \in 1..Len(fields) |-> QuoteField(fields[k])], Comma) \o <<NL>>

\* Lines 214-217: the rows of the repetitions from irep on.
RECURSIVE Rows(_, _, _)
Rows(a, irep, reps) ==
    IF irep >= reps THEN <<>>
    ELSE LET ranking == a.ranking[1]
             data == [k \in 1..Len(ranking) |->
                        Get(Get(a.normalised_scores[1], ranking[k]), irep)]
         IN  WriteRow([k \in 1..Len(data) |-> Str(data[k])])
               \o Rows(a, irep + 1, reps)

\* A variant of csv() that writes an empty header when there are no names.
Csv_blank(a) ==
    IF a.ranked_names = None THEN [raised |-> "", value |-> <<NL>>]
    ELSE [raised |-> "",
          value |-> Join(a.ranked_names[1], Comma) \o <<NL>> \o Rows(a, 0, a.repetitions)]

\* csv() on an object of attributes a: the string returned, or the
\* TypeError of joining None.
Csv(a) ==
    IF a.ranked_names = None THEN [raised |-> "TypeError"]
    ELSE [raised |-> "",
          value |-> Join(a.ranked_names[1], Comma) \o <<NL>> \o Rows(a, 0, a.repetitions)]

\* -------------------------------------------------------------- inputs
\* The names of n players, "p0", "p1", ...
PlainNames(n) == [k \in 1..n |-> <<"p", Digit(k - 1)>>]

\* The lists of names tried: plain ones, and one whose first name holds a comma.
NameLists(n) ==
    {PlainNames(n), [PlainNames(n) EXCEPT ![1] = <<"a", Comma, "b">>]}

\* A channel of `count` matrices of rows x cols values in 0..MaxVal:
\* the value at [r][i][j] is s + a*r + b*i + c*j modulo MaxVal + 1.
GenChannel(seed, count, rows, cols) ==
    [r \in 1..count |-> [i \in 1..rows |-> [j \in 1..cols |->
        (seed[1] + seed[2] * (r - 1) + seed[3] * (i - 1) + seed[4] * (j - 1))
          % (MaxVal + 1)]]]

PayoffSeeds == {<<s, x[1], x[2], x[3]>> : s \in 0..MaxVal,
                                           x \in {<<0, 0, 1>>, <<1, 1, 0>>, <<1, 0, 1>>}}
CoopSeeds == {<<0, 1, 0, 1>>, <<1, 0, 1, 0>>}

\* The shapes [count, rows, cols] that differ from [reps, n, n] in one place.
BadShapes(n, reps) ==
    {<<k, n, n>> : k \in {0, reps - 1, reps + 1} \ {-1, reps}}
      \cup {<<reps, n + d, n>> : d \in {-1, 1}}
      \cup {<<reps, n, n + d>> : d \in {-1, 1}}

\* Bundles whose every channel has the declared shape.
GoodBundles(n, reps) ==
    LET pay == {EmptyDict} \cup
               {("payoff" :> GenChannel(s, reps, n, n)) : s \in PayoffSeeds}
        coop == {EmptyDict} \cup
                {("cooperation" :> GenChannel(s, reps, n, n)) : s \in CoopSeeds}
    IN  {p @@ c : p \in pay, c \in coop}

\* Bundles with one channel of another shape, the other channel absent or
\* well-shaped.
BadBundles(n, reps) ==
    LET bad(name) == {(name :> GenChannel(<<1, a, 1, a>>, sh[1], sh[2], sh[3])) :
                         a \in 0..1, sh \in BadShapes(n, reps)}
        good(name) == {EmptyDict, (name :> GenChannel(<<1, 1, 0, 1>>, reps, n, n))}
    IN  {p @@ c : p \in bad("payoff"), c \in good("cooperation")}
          \cup {p @@ c : p \in good("payoff"), c \in bad("cooperation")}

\* The orders in which a dictionary of these keys may be iterated.
Orders(keys) ==
    {o \in {<<>>, <<"payoff">>, <<"cooperation">>, <<"payoff", "cooperation">>,
            <<"cooperation", "payoff">>} : {o[k] : k \in 1..Len(o)} = keys}

\* ------------------------------------------------------- state machine
\* getattr(self, name) returns a value when __init__ assigned the attribute,
\* and raises AttributeError otherwise.
Readable(name) == name \in DOMAIN attrs

NoReturn == [op |-> "none"]

Init ==
    /\ \E n \in 2..MaxPlayers, reps \in 0..MaxReps :
          /\ players \in NameLists(n)
          /\ repetitions = reps
          /\ \/ outcome \in GoodBundles(n, reps)
             \/ /\ outcome \in BadBundles(n, reps)
                /\ players = PlainNames(n)
    /\ turns \in 1..MaxTurns
    /\ with_morality \in BOOLEAN
    /\ phase = "new"
    /\ heap = <<>>
    /\ attrs = EmptyDict
    /\ calls = <<>>
    /\ first_csv = None
    /\ ret = NoReturn

\* ResultSet(players, turns, repetitions, outcome, with_morality)
Construct ==
    /\ phase = "new"
    /\ \E order \in Orders(DOMAIN outcome) :
          \E rs \in {ResultSet(players, turns, repetitions, outcome, with_morality, order)} :
              /\ phase' = IF rs.raised = "" THEN "built" ELSE "failed"
              /\ heap' = rs.heap
              /\ attrs' = rs.attrs
              /\ calls' = rs.calls
              /\ ret' = [op |-> "__init__", raised |-> rs.raised]
    /\ UNCHANGED <<players, turns, repetitions, outcome, with_morality, first_csv>>

\* A variant of csv() that reverses self.ranking in place after writing.
csv_reversing ==
    /\ phase = "built"
    /\ \E out \in {Csv(attrs)} :
          /\ ret' = [op |-> "csv"] @@ out
          /\ first_csv' = IF first_csv = None THEN Some(out) ELSE first_csv
    /\ attrs' = IF attrs.ranking = None THEN attrs
                ELSE [attrs EXCEPT !.ranking =
                        Some([k \in 1..Len(attrs.ranking[1]) |->
                                attrs.ranking[1][Len(attrs.ranking[1]) + 1 - k]])]
    /\ UNCHANGED <<players, turns, repetitions, outcome, with_morality,
                   phase, heap, calls>>

\* self.csv()
csv ==
    /\ phase = "built"
    /\ \E out \in {Csv(attrs)} :
          /\ ret' = [op |-> "csv"] @@ out
          /\ first_csv' = IF first_csv = None THEN Some(out) ELSE first_csv
    /\ UNCHANGED <<players, turns, repetitions, outcome, with_morality,
                   phase, heap, attrs, calls>>

\* Reading self._null_results_matrix: a new tensor of zeros, not kept.
ReadNullResultsMatrix ==
    /\ phase = "built"
    /\ LET null == _null_results_matrix(heap, attrs.nplayers, attrs.repetitions)
       IN  ret' = [op |-> "_null_results_matrix", raised |-> "",
                   value |-> Tensor(null.heap, null.matrix)]
    /\ UNCHANGED <<players, turns, repetitions, outcome, with_morality,
                   phase, heap, attrs, calls, first_csv>>

\* Reading self._null_matrix
ReadNullMatrix ==
    /\ phase = "built"
    /\ ret' = [op |-> "_null_matrix", raised |-> "", value |-> _null_matrix(attrs.nplayers)]
    /\ UNCHANGED <<players, turns, repetitions, outcome, with_morality,
                   phase, heap, attrs, calls, first_csv>>

Next ==
    \/ Construct
    \/ csv
    \/ ReadNullResultsMatrix
    \/ ReadNullMatrix

Spec == Init /\ [][Next]_vars

\* -------------------------------------------------------------- claims
Built == phase = "built"
NPlayers == Len(players)

\* Every channel of the bundle is a list of `repetitions` matrices of
\* NPlayers x NPlayers values.
WellShaped ==
    \A c \in DOMAIN outcome :
        /\ Len(outcome[c]) = repetitions
        /\ \A r \in 1..Len(outcome[c]) :
              /\ Len(outcome[c][r]) = NPlayers
              /\ \A i \in 1..Len(outcome[c][r]) : Len(outcome[c][r][i]) = NPlayers

\* The inputs of the interface: positive turns and repetitions, and a bundle
\* of the declared shape.
ValidInput == turns >= 1 /\ repetitions >= 1 /\ WellShaped

\* self.results[c] as nested lists
Results(c) == Tensor(heap, attrs.results[c])

At3(tensor, a, b, c) == Get(Get(Get(tensor, a), b), c)

\* C1: after construction from a well-shaped bundle, results has exactly
\* the channels of the bundle and results[c][i][j][r] = outcome[c][r][i][j]
\* for every channel c, players i, j and repetition r.
C1_Reshape ==
    (Built /\ ValidInput) =>
        /\ DOMAIN attrs.results = DOMAIN outcome
        /\ \A c \in DOMAIN outcome :
              \A i \in 0..(NPlayers - 1), j \in 0..(NPlayers - 1),
                 r \in 0..(repetitions - 1) :
                  At3(Results(c), i, j, r) = At3(outcome[c], r, i, j)

C1_Witness ==
    /\ Built /\ ValidInput
    /\ DOMAIN outcome = {"payoff", "cooperation"}
    /\ repetitions >= 2
    /\ At3(Results("payoff"), 0, 1, 0) # At3(Results("payoff"), 1, 0, 0)
    /\ At3(Results("payoff"), 0, 1, 0) # At3(Results("payoff"), 0, 1, 1)

\* C2: without a 'payoff' channel every payoff-derived attribute can be
\* read and is None, and without a 'cooperation' channel every
\* cooperation-derived attribute can be read and is None.
C2_MissingChannel ==
    Built =>
        /\ "payoff" \notin DOMAIN outcome =>
              \A f \in PayoffFields : Readable(f) /\ attrs[f] = None
        /\ "cooperation" \notin DOMAIN outcome =>
              \A f \in CoopFields : Readable(f) /\ attrs[f] = None

\* C3: constructed with with_morality = False, the eight cooperation-derived
\* attributes are None, no cooperation reducer and no eigenvector routine
\* was called, and the payoff-derived attributes are those of the same
\* construction with with_morality = True.
C3_MoralityOff ==
    (Built /\ ~with_morality) =>
        /\ \A f \in CoopFields : Readable(f) /\ attrs[f] = None
        /\ \A k \in 1..Len(calls) : calls[k] \notin {CoopCalls[n] : n \in 1..Len(CoopCalls)}
        /\ ret.op = "__init__" =>
              \A order \in Orders(DOMAIN outcome) :
                  \E on \in {ResultSet(players, turns, repetitions, outcome, TRUE, order)} :
                      /\ on.raised = ""
                      /\ \A f \in PayoffFields :
                            /\ f \in DOMAIN on.attrs <=> Readable(f)
                            /\ Readable(f) => attrs[f] = on.attrs[f]

C3_Witness ==
    /\ Built /\ ~with_morality /\ ValidInput
    /\ ret.op = "__init__"
    /\ DOMAIN attrs.results = {"payoff", "cooperation"}
    /\ attrs.scores # None

\* C4: a bundle with a channel of another shape than the declared one makes
\* the construction fail in _results, before any reducer is called.
C4_MalformedFails ==
    (phase # "new" /\ ~WellShaped) => (phase = "failed" /\ calls = <<>>)

\* C5: csv() on an object built without a 'payoff' channel raises, and
\* returns no string, whatever the number of repetitions.
C5_ExportNeedsPayoff ==
    (ret.op = "csv" /\ "payoff" \notin DOMAIN outcome) =>
        (ret.raised # "" /\ "value" \notin DOMAIN ret)

C5_Witness ==
    /\ ret.op = "csv"
    /\ "payoff" \notin DOMAIN outcome
    /\ "cooperation" \in DOMAIN outcome
    /\ repetitions = 0
    /\ ret.raised = "TypeError"

\* s.split(sep)
RECURSIVE Split(_, _)
Split(str, sep) ==
    IF \A k \in 1..Len(str) : str[k] # sep THEN <<str>>
    ELSE LET k == CHOOSE x \in 1..Len(str) :
                     str[x] = sep /\ \A y \in 1..(x - 1) : str[y] # sep
         IN  <<SubSeq(str, 1, k - 1)>> \o Split(SubSeq(str, k + 1, Len(str)), sep)

\* C6: with the payoff channel present, csv() returns a header line and
\* `repetitions` data lines; the header splits on commas into the ranked
\* names, and field k of data line r is str(normalised_scores[ranking[k]][r]).
C6_ExportTable ==
    (ret.op = "csv" /\ ValidInput /\ "payoff" \in DOMAIN outcome) =>
        /\ ret.raised = ""
        /\ LET lines == Split(ret.value, NL)
               ranking == attrs.ranking[1]
           IN  /\ Len(lines) = repetitions + 2
               /\ lines[repetitions + 2] = <<>>
               /\ Len(Split(lines[1], Comma)) = NPlayers
               /\ Split(lines[1], Comma) = attrs.ranked_names[1]
               /\ \A r \in 0..(repetitions - 1) :
                     Split(Get(lines, r + 1), Comma) =
                         [k \in 1..NPlayers |->
                             Str(Get(Get(attrs.normalised_scores[1], ranking[k]), r))]

\* C7: once built, no operation changes players, turns, repetitions,
\* outcome, results or any attribute, and every call of csv() returns what
\* the first call returned.
C7_Immutable ==
    [][Built =>
          /\ attrs' = attrs
          /\ heap' = heap
          /\ <<players, turns, repetitions, outcome>>' = <<players, turns, repetitions, outcome>>
          /\ (ret'.op = "csv" /\ first_csv # None) =>
                ret' = [op |-> "csv"] @@ first_csv[1]]_vars

C7_Witness ==
    /\ Built
    /\ first_csv # None
    /\ first_csv[1].raised = ""
    /\ ret.op = "_null_results_matrix"
    /\ repetitions >= 2

\* The addresses of the lists that make up the tensor at address `matrix`.
ListsOf(matrix) ==
    {matrix} \cup {heap[matrix][i] : i \in 1..Len(heap[matrix])}
             \cup {heap[heap[matrix][i]][j] :
                      i \in 1..Len(heap[matrix]), j \in 1..Len(heap[matrix])}

OtherChannel(c) == IF c = "payoff" THEN "cooperation" ELSE "payoff"

\* The bundles that agree with the given one on channel c and have the
\* other channel removed, or holding other values.
Alternatives(c) ==
    LET alone == (c :> outcome[c])
        shifted == GenChannel(<<1, 1, 1, 0>>, repetitions, NPlayers, NPlayers)
        other == IF OtherChannel(c) \in DOMAIN outcome /\ outcome[OtherChannel(c)] = shifted
                 THEN GenChannel(<<0, 0, 1, 1>>, repetitions, NPlayers, NPlayers)
                 ELSE shifted
    IN  {alone, (OtherChannel(c) :> other) @@ alone}

FieldsOf(c) == IF c = "payoff" THEN PayoffFields ELSE CoopFields

\* C8: results[c] and the attributes derived from channel c are those of
\* the construction from any bundle that agrees on c; the tensors of the
\* channels are made of lists of their own, no list used twice; and each of
\* the two channels alone yields its attributes.
C8_ChannelsIndependent ==
    (Built /\ ValidInput /\ ret.op = "__init__") =>
        /\ \A c \in DOMAIN outcome :
              Cardinality(ListsOf(attrs.results[c])) = 1 + NPlayers + NPlayers * NPlayers
        /\ \A c \in DOMAIN outcome, d \in DOMAIN outcome :
              c # d => ListsOf(attrs.results[c]) \cap ListsOf(attrs.results[d]) = {}
        /\ \A c \in DOMAIN outcome :
              \A alt \in Alternatives(c) : \A order \in Orders(DOMAIN alt) :
                  \E o \in {ResultSet(players, turns, repetitions, alt, with_morality, order)} :
                      /\ o.raised = ""
                      /\ Tensor(o.heap, o.attrs.results[c]) = Results(c)
                      /\ \A f \in FieldsOf(c) :
                            /\ f \in DOMAIN o.attrs <=> Readable(f)
                            /\ Readable(f) => attrs[f] = o.attrs[f]
        /\ (DOMAIN outcome = {"cooperation"} /\ with_morality) =>
              \A f \in CoopFields : Readable(f) /\ attrs[f] # None
        /\ DOMAIN outcome = {"payoff"} =>
              \A f \in PayoffFields : Readable(f) /\ attrs[f] # None

C8_Witness ==
    /\ Built /\ ValidInput /\ ret.op = "__init__"
    /\ with_morality
    /\ DOMAIN outcome = {"payoff", "cooperation"}
    /\ Results("payoff") # Results("cooperation")
    /\ attrs.scores # None /\ attrs.cooperation # None

C10_PayoffDiffsMatrix ==
    (Built /\ ValidInput /\ "payoff" \in DOMAIN outcome) =>
        /\ Readable("payoff_diffs_matrix")
        /\ attrs.payoff_diffs_matrix # None
        /\ LET m == attrs.payoff_diffs_matrix[1]
               payoff == Results("payoff")
           IN  /\ Len(m) = NPlayers
               /\ \A i \in 0..(NPlayers - 1) :
                     /\ Len(Get(m, i)) = NPlayers
                     /\ Get(Get(m, i), i) = <<0, 1>>
                     /\ \A j \in 0..(NPlayers - 1) :
                           /\ Get(Get(m, i), j) =
                                 Rat(SumSeq([r \in 1..repetitions |->
                                        At3(payoff, i, j, r - 1) - At3(payoff, j, i, r - 1)]),
                                     turns * repetitions)
                           /\ Get(Get(m, i), j) = RatNeg(Get(Get(m, j), i))

C10_Witness ==
    /\ Built /\ ValidInput /\ "payoff" \in DOMAIN outcome
    /\ repetitions >= 2
    /\ Readable("payoff_diffs_matrix")
    /\ Get(Get(attrs.payoff_diffs_matrix[1], 0), 1) # <<0, 1>>
    /\ At3(Results("payoff"), 0, 0, 0) # 0
    /\ At3(Results("payoff"), 0, 1, 0) - At3(Results("payoff"), 1, 0, 0)
          # At3(Results("payoff"), 0, 1, 1) - At3(Results("payoff"), 1, 0, 1)

====
